---- MODULE Spec2Model ----
(***************************************************************************)
(* Strategy signal and order/deal lifecycle engine of algo_trade.          *)
(*                                                                         *)
(* Persisted rows (Deal, Order, StrategyConfig, AdminSystemConfig) are the *)
(* shared state; every Celery task invocation is a worker that reads rows  *)
(* into local objects, calls the exchange and saves the objects back.      *)
(* Quantities are integers in units of 0.0001, so that step 0.001 is 10,   *)
(* minimum 0.01 is 100 and 0.0567 is 567.  Python None / NULL is 0 for     *)
(* numeric and id fields.  Stop prices are kept in hundredths of the       *)
(* price unit, so that price * (1 - d/100) is the integer price*(100 - d). *)
(***************************************************************************)
EXTENDS Integers, Sequences, FiniteSets, TLC

\* ----------------------------------------------------------------------
\* Bounds
\* ----------------------------------------------------------------------
MaxDeals == 2
MaxOrders == 2
MaxTasks == 1
MaxRaw == 600

StrategyWorkers == {"s1"}
DispatchWorkers == {"d1"}
TaskWorkers == {"t1"}
InquiryWorkers == {"i1", "i2"}

\* ----------------------------------------------------------------------
\* Enumerations
\* ----------------------------------------------------------------------
OrderSide == {"BUY", "SELL"}
OrderStatus == {"NEW", "FILLED", "PARTIALLY_FILLED", "CANCELED"}
ProcessedSideEnum == {"BUY", "SELL", "BUY_AND_SELL", "NONE"}
StrategyState == {"STARTED", "RUNNING", "UPDATED", "STOPPED", "NOT_ORDERING"}

StrategyTasks == {"run_all_strategies", "strategy_processor_task"}
DispatchTasks == {"dispatch_deal_processing_task", "deal_processor_task"}
CreateOrderOutcomes == {"accepted", "rejected", "timeout", "error"}
Signals == {"BUY", "SELL", "NONE"}

Opposite(side) == IF side = "BUY" THEN "SELL" ELSE "BUY"

\* ----------------------------------------------------------------------
\* Market rules and sizing
\* ----------------------------------------------------------------------
Market == [step_size |-> 10, min_qty |-> 100, tick_size |-> 1]
MarketRules == {Market,
                [step_size |-> 1, min_qty |-> 0, tick_size |-> 1],
                [step_size |-> 100, min_qty |-> 100, tick_size |-> 1],
                [step_size |-> 7, min_qty |-> 50, tick_size |-> 1]}
SystemConfig == [wallex_tether_order_amount |-> 5670000]
ClosePrices == {0, 10000, 100000}

adjust_quantity(m, q) == (q \div m.step_size) * m.step_size
adjust_min_qty(m, q) == IF q < m.min_qty THEN 0 ELSE q
adjust_price(m, p) == (p \div m.tick_size) * m.tick_size

\* ----------------------------------------------------------------------
\* State
\* ----------------------------------------------------------------------
VARIABLES
    kill_switch,   \* AdminSystemConfig.kill_switch
    cfg,           \* the StrategyConfig row
    deals,         \* Deal rows, in creation order (index = id)
    orders,        \* Order rows, in creation order (index = id)
    exch,          \* orders accepted by the exchange (index = client order id)
    taskq,         \* queued process_single_deal_task invocations, per deal id
    sw,            \* strategy-cycle invocations
    dw,            \* deal-dispatch invocations
    tw,            \* single-deal task invocations
    iw,            \* order-reconciliation invocations
    audit,         \* the latest Deal/Order write or exchange submission
    seen,          \* prices handed to update_trailing_stop so far
    calc,          \* a raw quantity and what the sizing code makes of it
    calm,          \* a reconciliation pass has completed and nothing has changed since it began
    attempt,       \* the latest placement by a dispatch cycle, and the Deals whose entry order was refused
    mw,            \* the stop-order monitor invocation
    clock,         \* the time, when each Deal was created, and each strategy instance's _last_trade_ts
    feed,          \* the market data the latest strategy evaluation was given
    hook           \* the latest run of the StrategyConfig save hook and the cancellations it issued

vars == <<kill_switch, cfg, deals, orders, exch, taskq, sw, dw, tw, iw, audit, seen, calc, calm, attempt, mw, clock, feed, hook>>

NoDeal == [side |-> "NONE"]
NoOrder == [status |-> "NONE"]

IdleStrategy == [pc |-> "idle", task |-> "run_all_strategies",
                 ks |-> FALSE, on_since_start |-> FALSE,
                 sc_active |-> FALSE, sc_state |-> "STARTED",
                 cur_id |-> 0, cur_side |-> "NONE"]
IdleDispatch == [pc |-> "idle", task |-> "deal_processor_task",
                 ks |-> FALSE, on_since_start |-> FALSE, todo |-> <<>>]
IdleTask == [pc |-> "idle", deal_id |-> 0, obj |-> NoDeal,
             ks |-> FALSE, on_since_start |-> FALSE]
IdleInquiry == [pc |-> "idle", todo |-> <<>>, response |-> NoOrder,
                run |-> 0, saved |-> FALSE]
IdleMonitor == [pc |-> "idle", todo |-> <<>>, errors |-> 0]

\* Times are counted in ticks from 1; 0 stands for None.
NoHook == [n |-> 0, is_active |-> TRUE, turn_off_ordering |-> FALSE, issued |-> <<>>]
NoFeed == [candle |-> "none", order_book |-> "none", error |-> "none", signal |-> "NONE",
           close |-> 0, n |-> 0]
NoClock == [now |-> 1, created_at |-> <<>>, _last_trade_ts |-> [w \in StrategyWorkers |-> 0]]

NoAttempt == [deal |-> 0, task |-> "none", oc |-> "none", oc_sl |-> "none",
              oc_tp |-> "none", n |-> 0, refused |-> {}]
NoAudit == [task |-> "none", ks |-> FALSE, on_since_start |-> FALSE]
NoSeen == [deal |-> 0, hi |-> 0, lo |-> 0, initial |-> 0]
NoCalc == [raw |-> 0, market |-> Market, deal_quantity |-> -1,
           request |-> -1, direct |-> -1, legacy |-> -1]

Init ==
    /\ kill_switch = FALSE
    /\ cfg = [is_active |-> TRUE, state |-> "STARTED"]
    /\ deals = <<>>
    /\ orders = <<>>
    /\ exch = <<>>
    /\ taskq = [d \in 1..MaxDeals |-> 0]
    /\ sw = [w \in StrategyWorkers |-> IdleStrategy]
    /\ dw = [w \in DispatchWorkers |-> IdleDispatch]
    /\ tw = [w \in TaskWorkers |-> IdleTask]
    /\ iw = [w \in InquiryWorkers |-> IdleInquiry]
    /\ audit = NoAudit
    /\ seen = NoSeen
    /\ calc = NoCalc
    /\ calm = FALSE
    /\ attempt = NoAttempt
    /\ mw = IdleMonitor
    /\ clock = NoClock
    /\ feed = NoFeed
    /\ hook = NoHook

\* ----------------------------------------------------------------------
\* Rows and queries
\* ----------------------------------------------------------------------
Min(S) == CHOOSE x \in S : \A y \in S : x <= y
Max(S) == CHOOSE x \in S : \A y \in S : y <= x

RECURSIVE AscSeq(_)
AscSeq(S) == IF S = {} THEN <<>> ELSE <<Min(S)>> \o AscSeq(S \ {Min(S)})

NewDeal(side, price, qty) ==
    [side |-> side, price |-> price, quantity |-> qty,
     is_active |-> TRUE, is_processed |-> FALSE, processed_side |-> "NONE",
     status |-> "STARTED",
     stop_loss_price |-> 0, take_profit_price |-> 0,
     trailing_stop_enabled |-> FALSE, trailing_stop_distance |-> 0,
     stop_loss_order_id |-> 0, take_profit_order_id |-> 0]

NewOrder(deal_id, side, type, qty, client_order_id) ==
    [deal |-> deal_id, side |-> side, type |-> type, quantity |-> qty,
     status |-> "NEW", active |-> TRUE,
     executed_qty |-> 0, executed_percent |-> 0,
     client_order_id |-> client_order_id]

ExchangeOrder(deal_id, side, type, qty) ==
    [deal |-> deal_id, side |-> side, type |-> type, quantity |-> qty,
     status |-> "NEW", active |-> TRUE, executed_qty |-> 0, executed_percent |-> 0]

ActiveUnprocessed(ds) == {i \in 1..Len(ds) : ds[i].is_active /\ ~ds[i].is_processed}

\* Deal.objects.filter(is_active=True, is_processed=False).order_by('-created_at').first()
LatestActiveUnprocessed(ds) ==
    IF ActiveUnprocessed(ds) = {} THEN 0 ELSE Max(ActiveUnprocessed(ds))

\* Deal.objects.filter(is_active=True, is_processed=False).order_by('created_at')
_get_unprocessed_deals(ds) ==
    LET ids == AscSeq(ActiveUnprocessed(ds))
    IN [k \in 1..Len(ids) |-> [id |-> ids[k], obj |-> ds[ids[k]]]]

RECURSIVE SumOver(_, _)
SumOver(q, S) == IF S = {} THEN 0
                 ELSE LET d == CHOOSE x \in S : TRUE IN q[d] + SumOver(q, S \ {d})

QueuedTasks(q) == SumOver(q, DOMAIN q)

\* A dispatch entry point that goes on without testing the kill switch.
KillSwitchBlocksSkippedByDispatchTask(task, ks) ==
    ks /\ task # "dispatch_deal_processing_task"

\* The kill-switch test at the entry of a strategy cycle or a dispatch cycle.
KillSwitchBlocks(task, ks) == ks

WriteEvent(task, s) == [task |-> task, ks |-> s.ks, on_since_start |-> s.on_since_start]

\* ----------------------------------------------------------------------
\* Operator: AdminSystemConfig.kill_switch is written from the admin site
\* ----------------------------------------------------------------------
ClearOnSince(f) == [w \in DOMAIN f |-> [f[w] EXCEPT !.on_since_start = FALSE]]

kill_switch_view ==
    /\ kill_switch' = ~kill_switch
    /\ IF kill_switch
       THEN /\ sw' = ClearOnSince(sw) /\ dw' = ClearOnSince(dw) /\ tw' = ClearOnSince(tw)
       ELSE UNCHANGED <<sw, dw, tw>>
    /\ UNCHANGED <<cfg, deals, orders, exch, taskq, iw, audit, seen, calc, calm, attempt, mw, clock, feed, hook>>

\* ----------------------------------------------------------------------
\* Strategy cycle: run_all_strategies / StrategyProcessorService
\* ----------------------------------------------------------------------
\* StrategyConfig.update_state: the config with its state set.
update_state(c, state) == [c EXCEPT !.state = state]

_get_active_strategies(c) == c.is_active /\ c.state \in {"STARTED", "RUNNING", "UPDATED"}

\* Entry of the cycle up to the end of StrategyMacdEmaCross.initialize().
StrategyStart(w, task) ==
    /\ sw[w].pc = "idle"
    /\ LET ks == kill_switch
           started == [IdleStrategy EXCEPT !.task = task, !.ks = ks, !.on_since_start = ks]
           cur == LatestActiveUnprocessed(deals)
       IN IF KillSwitchBlocks(task, ks)
          THEN /\ sw' = [sw EXCEPT ![w] = [started EXCEPT !.pc = "blocked"]]
               /\ UNCHANGED cfg
          ELSE IF ~_get_active_strategies(cfg)
          THEN UNCHANGED <<sw, cfg>>
          ELSE /\ sw' = [sw EXCEPT ![w] =
                           [started EXCEPT !.pc = "initialized",
                                           !.sc_active = cfg.is_active,
                                           !.sc_state = cfg.state,
                                           !.cur_id = cur,
                                           !.cur_side = IF cur = 0 THEN "NONE" ELSE deals[cur].side]]
               /\ cfg' = update_state(cfg, "RUNNING")
    /\ UNCHANGED <<kill_switch, deals, orders, exch, taskq, dw, tw, iw, audit, seen, calc, calm, attempt, mw>>

\* The invocation that found the kill switch on has returned.
StrategyReturn(w) ==
    /\ sw[w].pc = "blocked"
    /\ sw' = [sw EXCEPT ![w] = IdleStrategy]
    /\ UNCHANGED <<kill_switch, cfg, deals, orders, exch, taskq, dw, tw, iw, audit, seen, calc, calm, attempt, mw, clock, feed, hook>>

\* The entry gating of execute(): which side, if any, reaches _generate_deal.
ExecuteSide(s, sig) ==
    IF ~s.sc_active \/ s.sc_state \in {"STOPPED", "NOT_ORDERING"} THEN "NONE"
    ELSE IF sig = "BUY" /\ (s.cur_id = 0 \/ s.cur_side = "SELL") THEN "BUY"
    ELSE IF sig = "SELL" /\ s.cur_id # 0 /\ s.cur_side = "BUY" THEN "SELL"
    ELSE "NONE"

\* The quantity of the Deal _generate_deal creates from a calculated quantity.
DealQuantity(m, calculated_quantity) ==
    adjust_min_qty(m, adjust_quantity(m, calculated_quantity))

\* _generate_deal: the Deal it creates, or NoDeal when it returns without creating.
_generate_deal(s, side, price) ==
    IF s.cur_id # 0 /\ s.cur_side = side THEN NoDeal
    ELSE IF price <= 0 THEN NoDeal
    ELSE LET calculated_quantity == SystemConfig.wallex_tether_order_amount \div price
             adjusted_quantity == DealQuantity(Market, calculated_quantity)
         IN IF adjusted_quantity <= 0 THEN NoDeal
            ELSE NewDeal(side, adjust_price(Market, price), adjusted_quantity)

StrategyExecute(w, sig, price) ==
    /\ sw[w].pc = "initialized"
    /\ LET s == sw[w]
           side == ExecuteSide(s, sig)
           deal == IF side = "NONE" THEN NoDeal ELSE _generate_deal(s, side, price)
           created == deal.side # "NONE"
           current_deal == IF created THEN Len(deals) + 1 ELSE s.cur_id
           queues == s.task = "run_all_strategies" /\ price > 0 /\ current_deal # 0
       IN /\ created => Len(deals) < MaxDeals
          /\ queues => QueuedTasks(taskq) < MaxTasks
          /\ deals' = IF created THEN Append(deals, deal) ELSE deals
          /\ taskq' = IF queues THEN [taskq EXCEPT ![current_deal] = @ + 1] ELSE taskq
          /\ audit' = IF created THEN WriteEvent(s.task, s) ELSE audit
          /\ sw' = [sw EXCEPT ![w] = IdleStrategy]
    /\ UNCHANGED <<kill_switch, cfg, orders, exch, dw, tw, iw, seen, calc, calm, attempt, mw>>

\* ----------------------------------------------------------------------
\* Order placement
\* ----------------------------------------------------------------------
\* ProviderHandler.create_order against the exchange: an accepted order gets
\* the next exchange id. A rejected order and a request that timed out both
\* come back as a response without success and without an id
\* (WallexProvider.create_order); "error" is create_order raising. With
\* "unrecorded" the exchange accepts the order and the caller fails on the
\* response while it creates the Order row.
CreateOrder(ex, oc, eo) ==
    IF oc \in {"accepted", "unrecorded"} THEN [exch |-> Append(ex, eo), order_id |-> Len(ex) + 1]
    ELSE [exch |-> ex, order_id |-> 0]

\* _prepare_order_request with the call of adjust_min_qty left out.
_prepare_order_request_without_min_qty(d, m) ==
    LET adjusted_quantity == adjust_quantity(m, d.quantity)
    IN IF adjusted_quantity <= 0 THEN 0 ELSE adjusted_quantity

\* _place_stop_loss_order creating its Order row without the Deal.
_place_stop_loss_order_unlinked(id, d, oc, ords, ex) ==
    LET side == Opposite(d.side)
        qty == adjust_min_qty(Market, adjust_quantity(Market, d.quantity))
        r == CreateOrder(ex, oc, ExchangeOrder(id, side, "STOP_MARKET", qty))
    IN IF qty <= 0 \/ oc = "error"
       THEN [ok |-> FALSE, deal |-> d, orders |-> ords, exch |-> ex]
       ELSE [ok |-> TRUE,
             deal |-> [d EXCEPT !.stop_loss_order_id = r.order_id],
             orders |-> Append(ords, NewOrder(0, side, "STOP_MARKET", d.quantity, r.order_id)),
             exch |-> r.exch]


\* The quantity of the request, 0 when no request is built (None).
_prepare_order_request(d, m) ==
    LET adjusted_quantity == adjust_min_qty(m, adjust_quantity(m, d.quantity))
    IN IF adjusted_quantity <= 0 THEN 0 ELSE adjusted_quantity

_place_stop_loss_order(id, d, oc, ords, ex) ==
    LET side == Opposite(d.side)
        qty == adjust_min_qty(Market, adjust_quantity(Market, d.quantity))
        r == CreateOrder(ex, oc, ExchangeOrder(id, side, "STOP_MARKET", qty))
    IN IF qty <= 0 \/ oc = "error"
       THEN [ok |-> FALSE, deal |-> d, orders |-> ords, exch |-> ex]
       ELSE [ok |-> TRUE,
             deal |-> [d EXCEPT !.stop_loss_order_id = r.order_id],
             orders |-> Append(ords, NewOrder(id, side, "STOP_MARKET", d.quantity, r.order_id)),
             exch |-> r.exch]

_place_take_profit_order(id, d, oc, ords, ex) ==
    LET side == Opposite(d.side)
        qty == adjust_min_qty(Market, adjust_quantity(Market, d.quantity))
        r == CreateOrder(ex, oc, ExchangeOrder(id, side, "LIMIT", qty))
    IN IF qty <= 0 \/ oc = "error"
       THEN [ok |-> FALSE, deal |-> d, orders |-> ords, exch |-> ex]
       ELSE [ok |-> TRUE,
             deal |-> [d EXCEPT !.take_profit_order_id = r.order_id],
             orders |-> Append(ords, NewOrder(id, side, "LIMIT", d.quantity, r.order_id)),
             exch |-> r.exch]

\* place_order_for_deal giving up on the take-profit order once the stop-loss
\* order has failed.
place_order_for_deal_stop_first(id, d, oc, oc_sl, oc_tp, ords, ex) ==
    LET req == _prepare_order_request(d, Market)
        r == CreateOrder(ex, oc, ExchangeOrder(id, d.side, "LIMIT", req))
        entry == [ok |-> TRUE, deal |-> d,
                  orders |-> Append(ords, NewOrder(id, d.side, "LIMIT", d.quantity, r.order_id)),
                  exch |-> r.exch]
        sl == IF d.stop_loss_price # 0
              THEN _place_stop_loss_order(id, entry.deal, oc_sl, entry.orders, entry.exch)
              ELSE entry
        tp == IF d.take_profit_price # 0 /\ sl.ok
              THEN _place_take_profit_order(id, sl.deal, oc_tp, sl.orders, sl.exch)
              ELSE sl
    IN IF req = 0 \/ oc = "error"
       THEN [status |-> "error", deal |-> d, orders |-> ords, exch |-> ex]
       ELSE IF oc = "unrecorded"
       THEN [status |-> "error", deal |-> d, orders |-> ords, exch |-> r.exch]
       ELSE [status |-> "success",
             deal |-> [tp.deal EXCEPT !.is_processed = TRUE, !.processed_side = d.side],
             orders |-> tp.orders, exch |-> tp.exch]

\* OrderManagementService.place_order_for_deal on the Deal object d (row id).
place_order_for_deal(id, d, oc, oc_sl, oc_tp, ords, ex) ==
    LET req == _prepare_order_request(d, Market)
        r == CreateOrder(ex, oc, ExchangeOrder(id, d.side, "LIMIT", req))
        entry == [ok |-> TRUE, deal |-> d,
                  orders |-> Append(ords, NewOrder(id, d.side, "LIMIT", d.quantity, r.order_id)),
                  exch |-> r.exch]
        sl == IF d.stop_loss_price # 0
              THEN _place_stop_loss_order(id, entry.deal, oc_sl, entry.orders, entry.exch)
              ELSE entry
        tp == IF d.take_profit_price # 0
              THEN _place_take_profit_order(id, sl.deal, oc_tp, sl.orders, sl.exch)
              ELSE sl
    IN IF req = 0 \/ oc = "error"
       THEN [status |-> "error", deal |-> d, orders |-> ords, exch |-> ex]
       ELSE IF oc = "unrecorded"
       THEN [status |-> "error", deal |-> d, orders |-> ords, exch |-> r.exch]
       ELSE [status |-> "success",
             deal |-> [tp.deal EXCEPT !.is_processed = TRUE, !.processed_side = d.side],
             orders |-> tp.orders, exch |-> tp.exch]

\* DealProcessor._place_order_for_deal on the Deal object d (row id).
_place_order_for_deal(id, d, oc, ords, ex) ==
    LET r == CreateOrder(ex, oc, ExchangeOrder(id, d.side, "LIMIT", d.quantity))
    IN IF oc = "accepted"
       THEN [raised |-> FALSE,
             deal |-> [d EXCEPT !.is_processed = TRUE],
             orders |-> Append(ords, NewOrder(id, d.side, "LIMIT", d.quantity, r.order_id)),
             exch |-> r.exch, saved |-> TRUE]
       ELSE [raised |-> (oc \in {"error", "unrecorded"}), deal |-> d, orders |-> ords,
             exch |-> r.exch, saved |-> FALSE]

_validate_deal(d) == d.price > 0 /\ d.quantity > 0 /\ d.side \in {"BUY", "SELL"}

\* DealProcessorService._process_single_deal on the Deal object d (row id).
_process_single_deal(id, d, oc, oc_sl, oc_tp, ords, ex) ==
    LET r == place_order_for_deal(id, d, oc, oc_sl, oc_tp, ords, ex)
    IN IF ~_validate_deal(d)
       THEN [deal |-> d, orders |-> ords, exch |-> ex, saved |-> FALSE]
       ELSE IF r.status = "success"
       THEN [deal |-> [r.deal EXCEPT !.status = "RUNNING"],
             orders |-> r.orders, exch |-> r.exch, saved |-> TRUE]
       ELSE [deal |-> [r.deal EXCEPT !.status = "STOPPED", !.is_active = FALSE],
             orders |-> r.orders, exch |-> r.exch, saved |-> TRUE]

ProtectiveOutcomes(price) == IF price # 0 THEN CreateOrderOutcomes ELSE {"accepted"}

\* ----------------------------------------------------------------------
\* Deal dispatch: deal_processor_task / dispatch_deal_processing_task
\* ----------------------------------------------------------------------
DispatchStart(w, task) ==
    /\ dw[w].pc = "idle"
    /\ LET ks == kill_switch
           started == [IdleDispatch EXCEPT !.task = task, !.ks = ks, !.on_since_start = ks]
           unprocessed_deals == _get_unprocessed_deals(deals)
       IN dw' = [dw EXCEPT ![w] =
                    IF KillSwitchBlocks(task, ks) THEN [started EXCEPT !.pc = "blocked"]
                    ELSE IF unprocessed_deals = <<>> THEN IdleDispatch
                    ELSE [started EXCEPT !.pc = "processing", !.todo = unprocessed_deals]]
    /\ UNCHANGED <<kill_switch, cfg, deals, orders, exch, taskq, sw, tw, iw, audit, seen, calc, calm, attempt, mw, clock, feed, hook>>

\* The invocation that found the kill switch on has returned.
DispatchReturn(w) ==
    /\ dw[w].pc = "blocked"
    /\ dw' = [dw EXCEPT ![w] = IdleDispatch]
    /\ UNCHANGED <<kill_switch, cfg, deals, orders, exch, taskq, sw, tw, iw, audit, seen, calc, calm, attempt, mw, clock, feed, hook>>

\* One iteration of the loop over the unprocessed deals read at the start.
DispatchProcess(w, oc, oc_sl, oc_tp) ==
    /\ dw[w].pc = "processing"
    /\ LET s == dw[w]
           id == Head(s.todo).id
           d == Head(s.todo).obj
           r == IF s.task = "deal_processor_task"
                THEN _process_single_deal(id, d, oc, oc_sl, oc_tp, orders, exch)
                ELSE _place_order_for_deal(id, d, oc, orders, exch)
           rest == Tail(s.todo)
           written == r.saved \/ r.orders # orders \/ r.exch # exch
       IN /\ oc_sl \in ProtectiveOutcomes(d.stop_loss_price)
          /\ oc_tp \in ProtectiveOutcomes(d.take_profit_price)
          /\ Len(r.orders) <= MaxOrders
          /\ deals' = IF r.saved THEN [deals EXCEPT ![id] = r.deal] ELSE deals
          /\ orders' = r.orders
          /\ exch' = r.exch
          /\ audit' = IF written THEN WriteEvent(s.task, s) ELSE audit
          /\ dw' = [dw EXCEPT ![w] =
                       IF rest = <<>> THEN IdleDispatch ELSE [s EXCEPT !.todo = rest]]
    /\ UNCHANGED <<kill_switch, cfg, taskq, sw, tw, iw, seen, calc, calm, mw, clock, feed, hook>>

\* ----------------------------------------------------------------------
\* process_single_deal_task, queued by run_all_strategies
\* ----------------------------------------------------------------------
TaskStart(w, id) ==
    /\ tw[w].pc = "idle"
    /\ id \in DOMAIN taskq
    /\ taskq[id] > 0
    /\ taskq' = [taskq EXCEPT ![id] = @ - 1]
    /\ tw' = [tw EXCEPT ![w] = [pc |-> "loaded", deal_id |-> id, obj |-> deals[id],
                                ks |-> kill_switch, on_since_start |-> kill_switch]]
    /\ UNCHANGED <<kill_switch, cfg, deals, orders, exch, sw, dw, iw, audit, seen, calc, calm, attempt, mw, clock, feed, hook>>

TaskPlace(w, oc, retry) ==
    /\ tw[w].pc = "loaded"
    /\ LET s == tw[w]
           r == _place_order_for_deal(s.deal_id, s.obj, oc, orders, exch)
           requeue == r.raised /\ retry
       IN /\ retry => r.raised
          /\ requeue => QueuedTasks(taskq) < MaxTasks
          /\ Len(r.orders) <= MaxOrders
          /\ deals' = IF r.saved THEN [deals EXCEPT ![s.deal_id] = r.deal] ELSE deals
          /\ orders' = r.orders
          /\ exch' = r.exch
          /\ taskq' = IF requeue THEN [taskq EXCEPT ![s.deal_id] = @ + 1] ELSE taskq
          /\ audit' = IF r.saved THEN WriteEvent("process_single_deal_task", s) ELSE audit
          /\ tw' = [tw EXCEPT ![w] = IdleTask]
    /\ UNCHANGED <<kill_switch, cfg, sw, dw, iw, seen, calc, calm, attempt, mw, clock, feed, hook>>

\* ----------------------------------------------------------------------
\* Specification of deal creation and dispatch
\* ----------------------------------------------------------------------
StrategyStartStep ==
    \E w \in StrategyWorkers, task \in StrategyTasks : StrategyStart(w, task) /\ UNCHANGED <<clock, feed, hook>>
StrategyReturnStep == \E w \in StrategyWorkers : StrategyReturn(w)
StrategyExecuteStep ==
    \E w \in StrategyWorkers, sig \in Signals, price \in ClosePrices :
        StrategyExecute(w, sig, price) /\ UNCHANGED <<clock, feed, hook>>
DispatchStartStep == \E w \in DispatchWorkers, task \in DispatchTasks : DispatchStart(w, task)
DispatchReturnStep == \E w \in DispatchWorkers : DispatchReturn(w)
DispatchProcessStep ==
    \E w \in DispatchWorkers, oc, oc_sl, oc_tp \in CreateOrderOutcomes :
        DispatchProcess(w, oc, oc_sl, oc_tp) /\ UNCHANGED attempt
TaskStartStep == \E w \in TaskWorkers, id \in 1..MaxDeals : TaskStart(w, id)
TaskPlaceStep ==
    \E w \in TaskWorkers, oc \in CreateOrderOutcomes, retry \in BOOLEAN : TaskPlace(w, oc, retry)

NextDeal ==
    \/ kill_switch_view
    \/ StrategyStartStep
    \/ StrategyReturnStep
    \/ StrategyExecuteStep
    \/ DispatchStartStep
    \/ DispatchReturnStep
    \/ DispatchProcessStep
    \/ TaskStartStep
    \/ TaskPlaceStep

SpecDeal == Init /\ [][NextDeal]_vars

\* ----------------------------------------------------------------------
\* Specification of the cycles that test the kill switch at entry
\* ----------------------------------------------------------------------
NextKill ==
    \/ kill_switch_view
    \/ StrategyStartStep
    \/ StrategyReturnStep
    \/ StrategyExecuteStep
    \/ DispatchStartStep
    \/ DispatchReturnStep
    \/ DispatchProcessStep

SpecKill == Init /\ [][NextKill]_vars

\* ----------------------------------------------------------------------
\* Properties of deal creation and dispatch
\* ----------------------------------------------------------------------
EntryOrders(rows, d) ==
    {i \in 1..Len(rows) : rows[i].deal = d /\ rows[i].side = deals[d].side}

CycleTasks == StrategyTasks \cup DispatchTasks

KillSwitchHaltsCycle ==
    /\ audit.task \in CycleTasks => ~audit.ks
    /\ \A w \in DOMAIN sw : sw[w].ks => sw[w].pc = "blocked"
    /\ \A w \in DOMAIN dw : dw[w].ks => dw[w].pc = "blocked"

\* A strategy cycle and a dispatch cycle have both started with the kill switch
\* on while there is an active strategy config and an unprocessed Deal.
KillSwitchHaltsCycleWitness ==
    /\ \E w \in DOMAIN sw : sw[w].pc = "blocked"
    /\ \E w \in DOMAIN dw : dw[w].pc = "blocked"
    /\ _get_active_strategies(cfg)
    /\ ActiveUnprocessed(deals) # {}
    /\ audit.task \in CycleTasks

Disturb(f) == [w \in DOMAIN f |-> [f[w] EXCEPT !.run = 0]]

IsOpen(o) == o.status \in {"NEW", "PARTIALLY_FILLED"}

FillLevels(eo) == {[status |-> "PARTIALLY_FILLED", active |-> TRUE,
                    executed_qty |-> eo.quantity \div 2, executed_percent |-> 50],
                   [status |-> "PARTIALLY_FILLED", active |-> TRUE,
                    executed_qty |-> (3 * eo.quantity) \div 4, executed_percent |-> 75],
                   [status |-> "FILLED", active |-> FALSE,
                    executed_qty |-> eo.quantity, executed_percent |-> 100]}

ExchangeFill(i) ==
    /\ i \in 1..Len(exch)
    /\ IsOpen(exch[i])
    /\ \E f \in FillLevels(exch[i]) :
          /\ f.executed_qty > exch[i].executed_qty
          /\ exch' = [exch EXCEPT ![i] = [@ EXCEPT !.status = f.status, !.active = f.active,
                                                  !.executed_qty = f.executed_qty,
                                                  !.executed_percent = f.executed_percent]]
    /\ iw' = Disturb(iw)
    /\ calm' = FALSE
    /\ UNCHANGED <<kill_switch, cfg, deals, orders, taskq, sw, dw, tw, audit, seen, calc, attempt, mw, clock, feed, hook>>

\* ----------------------------------------------------------------------
\* Order reconciliation: inquiry_orders_task / InquiryOrderService
\* ----------------------------------------------------------------------
\* Order.objects.filter(status__in=[NEW, PARTIALLY_FILLED])
InquirySnapshot(ords) ==
    LET ids == AscSeq({i \in 1..Len(ords) : IsOpen(ords[i])})
    IN [k \in 1..Len(ids) |-> [id |-> ids[k], obj |-> ords[ids[k]]]]

\* provider.order_info: what the exchange reports for an order now.
order_info(ex, o) ==
    IF o.client_order_id \in 1..Len(ex)
    THEN [status |-> ex[o.client_order_id].status,
          active |-> ex[o.client_order_id].active,
          executed_qty |-> ex[o.client_order_id].executed_qty,
          executed_percent |-> ex[o.client_order_id].executed_percent]
    ELSE NoOrder

\* The fill fields _inquiry_order gives the Order object o for the response.
InquiryFill(o, response) ==
    IF response.status = "PARTIALLY_FILLED"
    THEN IF o.status = "PARTIALLY_FILLED" THEN o
         ELSE [o EXCEPT !.executed_qty = o.executed_qty + response.executed_qty,
                        !.executed_percent = o.executed_percent + response.executed_percent]
    ELSE [o EXCEPT !.executed_qty = response.executed_qty,
                   !.executed_percent = response.executed_percent]

\* The processed side _inquiry_order gives the Deal d of a filled order.
InquiryDeal(d, side, response) ==
    IF response.status = "FILLED" /\ d.processed_side = Opposite(side)
    THEN [d EXCEPT !.processed_side = "BUY_AND_SELL", !.is_processed = TRUE]
    ELSE IF response.status = "FILLED" /\ d.processed_side = "NONE"
    THEN [d EXCEPT !.processed_side = side]
    ELSE d

\* InquiryOrderService._inquiry_order after a successful response: the Order
\* object and the Deal object it saves.
_inquiry_order(o, response, d) ==
    [order |-> [InquiryFill(o, response) EXCEPT !.status = response.status,
                                                !.active = response.active],
     deal |-> InquiryDeal(d, o.side, response)]

\* _inquiry_order on an Order without Deal: the object gets the response,
\* order.save(update_fields=['status', 'active', 'executed_sum']) writes the
\* row (executed_sum is not part of the rows here).
_inquiry_order_no_deal(row, response) ==
    [row EXCEPT !.status = response.status, !.active = response.active]

InquiryStart(w) ==
    /\ iw[w].pc = "idle"
    /\ ~kill_switch
    /\ LET todo == InquirySnapshot(orders)
           overlap == \E v \in DOMAIN iw \ {w} : iw[v].pc # "idle"
           run == IF overlap THEN 0 ELSE IF calm THEN 2 ELSE 1
       IN iw' = [Disturb(iw) EXCEPT ![w] =
                    [IdleInquiry EXCEPT !.pc = IF todo = <<>> THEN "done" ELSE "fetch",
                                        !.todo = todo, !.run = run]]
    /\ calm' = FALSE
    /\ UNCHANGED <<kill_switch, cfg, deals, orders, exch, taskq, sw, dw, tw, audit, seen, calc, attempt, mw, clock, feed, hook>>

\* inquiry_all_orders with the failed lookup raised out of the loop.
InquiryFailedRaises(s) == [s EXCEPT !.pc = "done", !.todo = <<>>, !.run = 0]

\* _inquiry_order on a response without success: return False, and the loop
\* of inquiry_all_orders goes on with the next order.
InquiryFailed(s) ==
    [s EXCEPT !.pc = IF Tail(s.todo) = <<>> THEN "done" ELSE "fetch",
              !.todo = Tail(s.todo), !.run = 0]

\* The call of provider.order_info for the next order of the pass.
InquiryOrderInfo(w, success) ==
    /\ iw[w].pc = "fetch"
    /\ LET s == iw[w]
           response == order_info(exch, Head(s.todo).obj)
       IN iw' = [iw EXCEPT ![w] =
                    IF success /\ response # NoOrder
                    THEN [s EXCEPT !.pc = "apply", !.response = response]
                    ELSE InquiryFailed(s)]
    /\ UNCHANGED <<kill_switch, cfg, deals, orders, exch, taskq, sw, dw, tw, audit, seen, calc, calm, attempt, mw, clock, feed, hook>>

\* The transaction of _inquiry_order: update the objects, save Deal and Order.
InquiryApply(w) ==
    /\ iw[w].pc = "apply"
    /\ LET s == iw[w]
           id == Head(s.todo).id
           o == Head(s.todo).obj
           r == _inquiry_order(o, s.response, deals[o.deal])
           rest == Tail(s.todo)
       IN /\ orders' = [orders EXCEPT ![id] =
                          IF o.deal = 0 THEN _inquiry_order_no_deal(orders[id], s.response)
                          ELSE r.order]
          /\ deals' = IF o.deal = 0 THEN deals ELSE [deals EXCEPT ![o.deal] = r.deal]
          /\ iw' = [iw EXCEPT ![w] =
                       [s EXCEPT !.pc = IF rest = <<>> THEN "done" ELSE "fetch",
                                 !.todo = rest, !.response = NoOrder, !.saved = TRUE]]
    /\ UNCHANGED <<kill_switch, cfg, exch, taskq, sw, dw, tw, audit, seen, calc, calm, attempt, mw, clock, feed, hook>>

InquiryReturn(w) ==
    /\ iw[w].pc = "done"
    /\ iw' = [iw EXCEPT ![w] = IdleInquiry]
    /\ calm' = (iw[w].run >= 1)
    /\ UNCHANGED <<kill_switch, cfg, deals, orders, exch, taskq, sw, dw, tw, audit, seen, calc, attempt, mw, clock, feed, hook>>

\* ----------------------------------------------------------------------
\* Other entry points that write Order status
\* ----------------------------------------------------------------------
\* provider.cancel_order at the exchange: an open order is canceled when the
\* call succeeds.
CancelAtExchange(ex, cid, success) ==
    IF success /\ cid \in 1..Len(ex) /\ IsOpen(ex[cid])
    THEN [ex EXCEPT ![cid] = [@ EXCEPT !.status = "CANCELED", !.active = FALSE]]
    ELSE ex

\* OrderHandler.get_and_update_order_status on Order row i.
get_and_update_order_status(i) ==
    /\ i \in 1..Len(orders)
    /\ order_info(exch, orders[i]) # NoOrder
    /\ LET result == order_info(exch, orders[i])
       IN orders' = [orders EXCEPT ![i] = [@ EXCEPT !.executed_qty = result.executed_qty,
                                                    !.executed_percent = result.executed_percent,
                                                    !.status = result.status,
                                                    !.active = result.active]]
    /\ iw' = Disturb(iw)
    /\ calm' = FALSE
    /\ UNCHANGED <<kill_switch, cfg, deals, exch, taskq, sw, dw, tw, audit, seen, calc, attempt, mw, clock, feed, hook>>

\* OrderManagementService.cancel_order on Order row i.
cancel_order(i, success) ==
    /\ i \in 1..Len(orders)
    /\ orders[i].active
    /\ exch' = CancelAtExchange(exch, orders[i].client_order_id, success)
    /\ orders' = [orders EXCEPT ![i] = [@ EXCEPT !.status = "CANCELED", !.active = FALSE]]
    /\ iw' = Disturb(iw)
    /\ calm' = FALSE
    /\ UNCHANGED <<kill_switch, cfg, deals, taskq, sw, dw, tw, audit, seen, calc, attempt, mw, clock, feed, hook>>

\* DealProcessorService.cancel_deal on Deal row d: no call to the exchange.
cancel_deal(d) ==
    /\ d \in 1..Len(deals)
    /\ deals[d].is_active
    /\ deals' = [deals EXCEPT ![d] = [@ EXCEPT !.is_active = FALSE, !.status = "STOPPED"]]
    /\ orders' = [i \in 1..Len(orders) |->
                     IF orders[i].deal = d /\ orders[i].active
                     THEN [orders[i] EXCEPT !.active = FALSE, !.status = "CANCELED"]
                     ELSE orders[i]]
    /\ iw' = Disturb(iw)
    /\ calm' = FALSE
    /\ UNCHANGED <<kill_switch, cfg, exch, taskq, sw, dw, tw, audit, seen, calc, attempt, mw, clock, feed, hook>>

\* ----------------------------------------------------------------------
\* Specification of order reconciliation
\* ----------------------------------------------------------------------
\* The rows after one Deal has been created by a strategy cycle and its entry
\* order placed by a dispatch cycle of the given task.
Placed(side, task) ==
    LET d == _generate_deal(IdleStrategy, side, 10000)
    IN IF task = "deal_processor_task"
       THEN _process_single_deal(1, d, "accepted", "accepted", "accepted", <<>>, <<>>)
       ELSE _place_order_for_deal(1, d, "accepted", <<>>, <<>>)

InitRecon ==
    /\ kill_switch = FALSE
    /\ cfg = [is_active |-> TRUE, state |-> "RUNNING"]
    /\ \E side \in OrderSide, task \in DispatchTasks :
          /\ deals = <<Placed(side, task).deal>>
          /\ orders = Placed(side, task).orders
          /\ exch = Placed(side, task).exch
          /\ audit = WriteEvent(task, IdleDispatch)
    /\ taskq = [d \in 1..MaxDeals |-> 0]
    /\ sw = [w \in StrategyWorkers |-> IdleStrategy]
    /\ dw = [w \in DispatchWorkers |-> IdleDispatch]
    /\ tw = [w \in TaskWorkers |-> IdleTask]
    /\ iw = [w \in InquiryWorkers |-> IdleInquiry]
    /\ seen = NoSeen
    /\ calc = NoCalc
    /\ calm = FALSE
    /\ attempt = NoAttempt
    /\ mw = IdleMonitor
    /\ clock = NoClock
    /\ feed = NoFeed
    /\ hook = NoHook

ExchangeFillStep == \E i \in 1..MaxOrders : ExchangeFill(i)
InquiryStartStep == \E w \in InquiryWorkers : InquiryStart(w)
InquiryOrderInfoStep == \E w \in InquiryWorkers, success \in BOOLEAN : InquiryOrderInfo(w, success)
InquiryApplyStep == \E w \in InquiryWorkers : InquiryApply(w)
InquiryReturnStep == \E w \in InquiryWorkers : InquiryReturn(w)
GetAndUpdateStep == \E i \in 1..MaxOrders : get_and_update_order_status(i)
CancelOrderStep == \E i \in 1..MaxOrders, success \in BOOLEAN : cancel_order(i, success)
CancelDealStep == \E d \in 1..MaxDeals : cancel_deal(d)

NextRecon ==
    \/ ExchangeFillStep
    \/ InquiryStartStep
    \/ InquiryOrderInfoStep
    \/ InquiryApplyStep
    \/ InquiryReturnStep
    \/ GetAndUpdateStep
    \/ CancelOrderStep
    \/ CancelDealStep

SpecRecon == InitRecon /\ [][NextRecon]_vars

\* ----------------------------------------------------------------------
\* Properties of order reconciliation
\* ----------------------------------------------------------------------
\* C3: an Order whose local status is FILLED or CANCELED is never set back to
\* NEW or PARTIALLY_FILLED by any step.
OrderStatusNeverReopens ==
    [][\A i \in 1..Len(orders) :
          orders[i].status \in {"FILLED", "CANCELED"} =>
              orders'[i].status \notin {"NEW", "PARTIALLY_FILLED"}]_vars

\* C4: no step decreases the executed_qty or the executed_percent recorded for
\* an Order.
FillNeverDecreases ==
    [][\A i \in 1..Len(orders) :
          /\ orders'[i].executed_qty >= orders[i].executed_qty
          /\ orders'[i].executed_percent >= orders[i].executed_percent]_vars

\* C5: a reconciliation pass that directly follows a completed pass, with no
\* change at the exchange and no other writer in between, saves no Order and
\* no Deal.
SecondPassWritesNothing == \A w \in DOMAIN iw : iw[w].run = 2 => ~iw[w].saved

\* ----------------------------------------------------------------------
\* Trailing stop: OrderManagementService.update_trailing_stop
\* ----------------------------------------------------------------------
\* Prices are whole units; stop prices are kept in hundredths of a unit, so
\* that current_price * (1 - d / 100) is current_price * (100 - d).
TrailDistances == {1, 2}
TrailPrices == {100, 103, 105, 108}
InitialStops == {9000, 9900, 11500}

\* update_trailing_stop with the comparison against the stored stop removed.
update_trailing_stop_unconditional(d, current_price) ==
    IF ~d.trailing_stop_enabled \/ d.trailing_stop_distance = 0 \/ d.stop_loss_price = 0
    THEN 0
    ELSE IF d.side = "BUY"
    THEN current_price * (100 - d.trailing_stop_distance)
    ELSE current_price * (100 + d.trailing_stop_distance)

\* The stop price update_trailing_stop hands to _update_stop_loss_price, 0
\* when it returns None without an update. A Deal without a stop price makes
\* the comparison raise, which the method catches and answers with None.
update_trailing_stop(d, current_price) ==
    IF ~d.trailing_stop_enabled \/ d.trailing_stop_distance = 0 \/ d.stop_loss_price = 0
    THEN 0
    ELSE IF d.side = "BUY"
    THEN LET new_stop_price == current_price * (100 - d.trailing_stop_distance)
         IN IF new_stop_price > d.stop_loss_price THEN new_stop_price ELSE 0
    ELSE LET new_stop_price == current_price * (100 + d.trailing_stop_distance)
         IN IF new_stop_price < d.stop_loss_price THEN new_stop_price ELSE 0

\* _update_stop_loss_price on the Deal object d (row id). ProviderHandler has
\* no cancel_order, so the attempt to cancel the old stop order raises and is
\* only logged: the old order stays as it is. The Deal is saved with the new
\* price before the new stop order is placed.
_update_stop_loss_price(id, d, new_stop_price, oc, ords, ex) ==
    LET saved == [d EXCEPT !.stop_loss_price = new_stop_price,
                           !.stop_loss_order_id = 0]
    IN _place_stop_loss_order(id, saved, oc, ords, ex)

\* StopOrderMonitorService._monitor_single_deal for Deal i with the current
\* price: the monitor selects active, processed Deals that have a stop price.
UpdateTrailingStop(i, current_price, oc) ==
    /\ i \in 1..Len(deals)
    /\ deals[i].is_active /\ deals[i].is_processed /\ deals[i].stop_loss_price # 0
    /\ LET new_stop_price == update_trailing_stop(deals[i], current_price)
           r == _update_stop_loss_price(i, deals[i], new_stop_price, oc, orders, exch)
       IN IF new_stop_price = 0
          THEN /\ oc = "accepted"
               /\ UNCHANGED <<deals, orders, exch, audit>>
          ELSE /\ deals' = [deals EXCEPT ![i] = r.deal]
               /\ orders' = r.orders
               /\ exch' = r.exch
               /\ audit' = [task |-> "update_trailing_stop", ks |-> kill_switch,
                            on_since_start |-> FALSE]
    /\ seen' = [seen EXCEPT !.deal = i,
                            !.hi = Max({seen.hi, current_price}),
                            !.lo = IF seen.deal = 0 THEN current_price
                                   ELSE Min({seen.lo, current_price})]
    /\ UNCHANGED <<kill_switch, cfg, taskq, sw, dw, tw, iw, calc, calm, attempt, mw, clock, feed, hook>>

\* The rows after a Deal carrying a stop price and trailing-stop settings
\* (from the signal or the admin form) has had its orders placed.
TrailPlaced(side, enabled, distance, stop) ==
    LET d == [_generate_deal(IdleStrategy, side, 10000) EXCEPT
                 !.stop_loss_price = stop,
                 !.trailing_stop_enabled = enabled,
                 !.trailing_stop_distance = distance]
    IN _process_single_deal(1, d, "accepted", "accepted", "accepted", <<>>, <<>>)

InitTrail ==
    /\ kill_switch = FALSE
    /\ cfg = [is_active |-> TRUE, state |-> "RUNNING"]
    /\ \E side \in OrderSide, enabled \in BOOLEAN,
          distance \in TrailDistances, stop \in InitialStops :
          /\ deals = <<TrailPlaced(side, enabled, distance, stop).deal>>
          /\ orders = TrailPlaced(side, enabled, distance, stop).orders
          /\ exch = TrailPlaced(side, enabled, distance, stop).exch
          /\ seen = [NoSeen EXCEPT !.initial = stop]
    /\ audit = WriteEvent("deal_processor_task", IdleDispatch)
    /\ taskq = [d \in 1..MaxDeals |-> 0]
    /\ sw = [w \in StrategyWorkers |-> IdleStrategy]
    /\ dw = [w \in DispatchWorkers |-> IdleDispatch]
    /\ tw = [w \in TaskWorkers |-> IdleTask]
    /\ iw = [w \in InquiryWorkers |-> IdleInquiry]
    /\ calc = NoCalc
    /\ calm = FALSE
    /\ attempt = NoAttempt
    /\ mw = IdleMonitor
    /\ clock = NoClock
    /\ feed = NoFeed
    /\ hook = NoHook

UpdateTrailingStopStep ==
    \E i \in 1..MaxDeals, current_price \in TrailPrices, oc \in CreateOrderOutcomes :
        UpdateTrailingStop(i, current_price, oc)

NextTrail == UpdateTrailingStopStep

SpecTrail == InitTrail /\ [][NextTrail]_vars

\* ----------------------------------------------------------------------
\* Properties of the trailing stop
\* ----------------------------------------------------------------------
\* Deals whose stop trails and that update_trailing_stop has been called for.
Trailing(side) ==
    {i \in 1..Len(deals) : /\ seen.deal = i
                           /\ deals[i].side = side
                           /\ deals[i].trailing_stop_enabled
                           /\ deals[i].trailing_stop_distance # 0}

\* The stop of a long Deal never goes down and the stop of a short Deal never
\* goes up.
StopMovesFavourably ==
    \A i \in 1..Len(deals) :
        i <= Len(deals') /\ deals[i].trailing_stop_enabled =>
            /\ deals[i].side = "BUY" => deals'[i].stop_loss_price >= deals[i].stop_loss_price
            /\ deals[i].side = "SELL" => deals'[i].stop_loss_price <= deals[i].stop_loss_price

\* The stop stays within the highest (lowest) price seen less (plus) the
\* distance, or within the stop the Deal started with when that lies beyond.
StopWithinSeenOrInitial ==
    /\ \A i \in Trailing("BUY") :
          deals[i].stop_loss_price <=
              Max({seen.initial, seen.hi * (100 - deals[i].trailing_stop_distance)})
    /\ \A i \in Trailing("SELL") :
          deals[i].stop_loss_price >=
              Min({seen.initial, seen.lo * (100 + deals[i].trailing_stop_distance)})

\* The stop stays within the highest (lowest) price seen less (plus) the
\* distance.
StopWithinSeen ==
    /\ \A i \in Trailing("BUY") :
          deals[i].stop_loss_price <= seen.hi * (100 - deals[i].trailing_stop_distance)
    /\ \A i \in Trailing("SELL") :
          deals[i].stop_loss_price >= seen.lo * (100 + deals[i].trailing_stop_distance)

\* C6, as stated: for a long Deal with trailing stop enabled and distance d%,
\* over any sequence of observed prices the stop-loss price is non-decreasing
\* and never exceeds (highest price seen) x (1 - d/100); for a short Deal it is
\* non-increasing and never falls below (lowest price seen) x (1 + d/100).
TrailingStopBoundedBySeenPrices == [][StopMovesFavourably]_vars /\ []StopWithinSeen

\* C6: for a long Deal with trailing stop enabled and distance d%, over any
\* sequence of observed prices the stop-loss price is non-decreasing and never
\* exceeds the larger of the stop price the Deal started with and (highest
\* price seen) x (1 - d/100); for a short Deal it is non-increasing and never
\* falls below the smaller of the stop price it started with and (lowest price
\* seen) x (1 + d/100).
TrailingStopMonotoneAndBounded == [][StopMovesFavourably]_vars /\ []StopWithinSeenOrInitial

\* A long Deal whose stop has been raised by a price that was later followed
\* by a lower one.
TrailingStopMonotoneAndBoundedWitness ==
    \E i \in Trailing("BUY") :
        /\ deals[i].stop_loss_price > seen.initial
        /\ deals[i].stop_loss_price = seen.hi * (100 - deals[i].trailing_stop_distance)
        /\ seen.lo < seen.hi
        /\ Len(orders) > 2

\* ----------------------------------------------------------------------
\* Specification of order sizing
\* ----------------------------------------------------------------------
\* calc holds a calculated (raw) quantity, a Market, and the quantities the
\* code derives from them; -1 stands for "not computed yet", 0 for "no Deal"
\* or "no order".
InitRound ==
    /\ kill_switch = FALSE
    /\ cfg = [is_active |-> TRUE, state |-> "RUNNING"]
    /\ deals = <<>>
    /\ orders = <<>>
    /\ exch = <<>>
    /\ taskq = [d \in 1..MaxDeals |-> 0]
    /\ sw = [w \in StrategyWorkers |-> IdleStrategy]
    /\ dw = [w \in DispatchWorkers |-> IdleDispatch]
    /\ tw = [w \in TaskWorkers |-> IdleTask]
    /\ iw = [w \in InquiryWorkers |-> IdleInquiry]
    /\ audit = NoAudit
    /\ seen = NoSeen
    /\ \E raw \in 0..MaxRaw, market \in MarketRules :
          calc = [NoCalc EXCEPT !.raw = raw, !.market = market]
    /\ calm = FALSE
    /\ attempt = NoAttempt
    /\ mw = IdleMonitor
    /\ clock = NoClock
    /\ feed = NoFeed
    /\ hook = NoHook

\* _generate_deal sizes the Deal from the calculated quantity.
RoundDeal ==
    /\ calc.deal_quantity = -1
    /\ calc' = [calc EXCEPT !.deal_quantity = DealQuantity(calc.market, calc.raw)]
    /\ UNCHANGED <<kill_switch, cfg, deals, orders, exch, taskq, sw, dw, tw, iw, audit, seen, calm, attempt, mw, clock, feed, hook>>

\* place_order_for_deal builds the request for the Deal _generate_deal created.
RoundRequest ==
    /\ calc.deal_quantity > 0
    /\ calc.request = -1
    /\ calc' = [calc EXCEPT !.request =
                   _prepare_order_request([quantity |-> calc.deal_quantity], calc.market)]
    /\ UNCHANGED <<kill_switch, cfg, deals, orders, exch, taskq, sw, dw, tw, iw, audit, seen, calm, attempt, mw, clock, feed, hook>>

\* place_order_for_deal builds the request for a Deal that carries the
\* calculated quantity as it is.
RoundDirect ==
    /\ calc.direct = -1
    /\ calc' = [calc EXCEPT !.direct =
                   _prepare_order_request([quantity |-> calc.raw], calc.market)]
    /\ UNCHANGED <<kill_switch, cfg, deals, orders, exch, taskq, sw, dw, tw, iw, audit, seen, calm, attempt, mw, clock, feed, hook>>

\* DealProcessor._place_order_for_deal submits the quantity of the Deal
\* _generate_deal created as it is.
RoundLegacy ==
    /\ calc.deal_quantity > 0
    /\ calc.legacy = -1
    /\ calc' = [calc EXCEPT !.legacy =
                   _place_order_for_deal(1, NewDeal("BUY", 10000, calc.deal_quantity),
                                         "accepted", <<>>, <<>>).exch[1].quantity]
    /\ UNCHANGED <<kill_switch, cfg, deals, orders, exch, taskq, sw, dw, tw, iw, audit, seen, calm, attempt, mw, clock, feed, hook>>

NextRound ==
    \/ RoundDeal
    \/ RoundRequest
    \/ RoundDirect
    \/ RoundLegacy

SpecRound == InitRound /\ [][NextRound]_vars

\* ----------------------------------------------------------------------
\* Properties of order sizing
\* ----------------------------------------------------------------------
\* q is raw rounded down to a multiple of step.
RoundedDown(raw, step, q) == q % step = 0 /\ q <= raw /\ raw < q + step

\* q is what may be submitted for raw: raw rounded down to the step when that
\* reaches the minimum quantity, and nothing (0) otherwise.
Submittable(raw, m, q) ==
    \/ q > 0 /\ RoundedDown(raw, m.step_size, q) /\ q >= m.min_qty
    \/ q = 0 /\ \E r \in 0..raw : RoundedDown(raw, m.step_size, r) /\ (r < m.min_qty \/ r = 0)

PlaceStops == {0, 9900}
PlaceTargets == {0, 10500}

\* What a dispatch cycle's placement for the Deal at the head of s.todo is
\* remembered as. A protective outcome counts only where the order is tried.
Attempt(s, oc, oc_sl, oc_tp) ==
    LET id == Head(s.todo).id
        d == Head(s.todo).obj
        full == s.task = "deal_processor_task" /\ oc \notin {"error", "unrecorded"}
    IN [deal |-> id, task |-> s.task, oc |-> oc,
        oc_sl |-> IF full /\ d.stop_loss_price # 0 THEN oc_sl ELSE "none",
        oc_tp |-> IF full /\ d.take_profit_price # 0 THEN oc_tp ELSE "none",
        n |-> (attempt.n + 1) % 2,
        refused |-> IF oc = "rejected" THEN attempt.refused \cup {id} ELSE attempt.refused]

\* The Deal a strategy cycle created, with the protective prices it was given.
PlaceDeal(side, stop, target) ==
    [_generate_deal(IdleStrategy, side, 10000) EXCEPT
        !.stop_loss_price = stop, !.take_profit_price = target]

InitPlace ==
    /\ kill_switch = FALSE
    /\ cfg = [is_active |-> TRUE, state |-> "RUNNING"]
    /\ \E side \in OrderSide, stop \in PlaceStops, target \in PlaceTargets :
          deals = <<PlaceDeal(side, stop, target)>>
    /\ orders = <<>>
    /\ exch = <<>>
    /\ taskq = [d \in 1..MaxDeals |-> 0]
    /\ sw = [w \in StrategyWorkers |-> IdleStrategy]
    /\ dw = [w \in DispatchWorkers |-> IdleDispatch]
    /\ tw = [w \in TaskWorkers |-> IdleTask]
    /\ iw = [w \in InquiryWorkers |-> IdleInquiry]
    /\ audit = WriteEvent("run_all_strategies", IdleStrategy)
    /\ seen = NoSeen
    /\ calc = NoCalc
    /\ calm = FALSE
    /\ attempt = NoAttempt
    /\ mw = IdleMonitor
    /\ clock = NoClock
    /\ feed = NoFeed
    /\ hook = NoHook

DispatchPlaceStep ==
    \E w \in DispatchWorkers, oc, oc_sl, oc_tp \in CreateOrderOutcomes :
        /\ DispatchProcess(w, oc, oc_sl, oc_tp)
        /\ attempt' = Attempt(dw[w], oc, oc_sl, oc_tp)

NextPlace ==
    \/ kill_switch_view
    \/ DispatchStartStep
    \/ DispatchReturnStep
    \/ DispatchPlaceStep

SpecPlace == InitPlace /\ [][NextPlace]_vars

\* ----------------------------------------------------------------------
\* Properties of placement
\* ----------------------------------------------------------------------
Failed == {"rejected", "timeout", "error"}

\* The rows of deal of the given type and side.
OrderRows(rows, deal, type, side) ==
    {k \in 1..Len(rows) : rows[k].deal = deal /\ rows[k].type = type /\ rows[k].side = side}

ProtectiveTried ==
    /\ attempt' # attempt
    /\ attempt'.task = "deal_processor_task"
    /\ attempt'.oc # "error"

FilledSide(processed_side, side) ==
    IF processed_side = "NONE" THEN side
    ELSE IF processed_side = Opposite(side) THEN "BUY_AND_SELL"
    ELSE processed_side

ActiveOrderRows(ords) == {k \in 1..Len(ords) : ords[k].active}
active_orders_first(ords) == SubSeq(AscSeq(ActiveOrderRows(ords)), 1, 1)
active_orders(ords) == AscSeq(ActiveOrderRows(ords))

\* CancelOrderService.cancel_order for the rows ids, one after another: the
\* exchange cancels an open order or the request fails. The provider answers
\* without a result, so no Order row is updated.
RECURSIVE CancelOrders(_, _, _, _)
CancelOrders(ids, oc, ords, ex) ==
    IF ids = <<>> THEN ex
    ELSE CancelOrders(Tail(ids), oc, ords,
                      CancelAtExchange(ex, ords[Head(ids)].client_order_id,
                                       oc[Head(ids)] = "canceled"))

\* post_save of StrategyConfig (update_strategy_state) after the operator has
\* saved the existing config with the given flags. The orders are canceled
\* once when ordering is turned off and once when the config is inactive; the
\* comparison with the row read back after the save finds nothing changed.
update_strategy_state(is_active, turn_off_ordering, oc) ==
    /\ LET ids == active_orders(orders)
           issued == (IF turn_off_ordering THEN ids ELSE <<>>)
                        \o (IF ~is_active THEN ids ELSE <<>>)
       IN /\ exch' = CancelOrders(issued, oc, orders, exch)
          /\ hook' = [n |-> (hook.n + 1) % 2, is_active |-> is_active,
                      turn_off_ordering |-> turn_off_ordering, issued |-> issued]
    /\ cfg' = update_state([cfg EXCEPT !.is_active = is_active],
                            IF ~is_active THEN "STOPPED"
                            ELSE IF turn_off_ordering THEN "NOT_ORDERING"
                            ELSE "UPDATED")
    /\ iw' = IF exch' = exch THEN iw ELSE Disturb(iw)
    /\ calm' = (calm /\ exch' = exch)
    /\ UNCHANGED <<kill_switch, deals, orders, taskq, sw, dw, tw, audit, seen, calc, attempt, mw, clock, feed>>

\* Entry of the cycle: the kill switch test and the selection of the configs
\* to run. StrategyStart is this step and StrategyInitialize with nothing
\* happening in between.
StrategySelect(w, task) ==
    /\ sw[w].pc = "idle"
    /\ LET ks == kill_switch
           started == [IdleStrategy EXCEPT !.task = task, !.ks = ks, !.on_since_start = ks]
       IN IF KillSwitchBlocks(task, ks)
          THEN sw' = [sw EXCEPT ![w] = [started EXCEPT !.pc = "blocked"]]
          ELSE IF ~_get_active_strategies(cfg)
          THEN UNCHANGED sw
          ELSE sw' = [sw EXCEPT ![w] = [started EXCEPT !.pc = "selected"]]
    /\ UNCHANGED <<kill_switch, cfg, deals, orders, exch, taskq, dw, tw, iw, audit, seen, calc, calm, attempt, mw, clock, feed, hook>>

\* StrategyMacdEmaCross.initialize() for the selected config: it reads the
\* config row and the current Deal, and ends by setting the state to RUNNING.
StrategyInitialize(w) ==
    /\ sw[w].pc = "selected"
    /\ LET cur == LatestActiveUnprocessed(deals)
       IN sw' = [sw EXCEPT ![w] =
                    [@ EXCEPT !.pc = "initialized",
                              !.sc_active = cfg.is_active,
                              !.sc_state = cfg.state,
                              !.cur_id = cur,
                              !.cur_side = IF cur = 0 THEN "NONE" ELSE deals[cur].side]]
    /\ cfg' = update_state(cfg, "RUNNING")
    /\ UNCHANGED <<kill_switch, deals, orders, exch, taskq, dw, tw, iw, audit, seen, calc, calm, attempt, mw, clock, feed, hook>>

UpdateStrategyStateStep ==
    \E is_active, turn_off_ordering \in BOOLEAN,
       oc \in [ActiveOrderRows(orders) -> {"canceled", "failed"}] :
        update_strategy_state(is_active, turn_off_ordering, oc)
StrategySelectStep == \E w \in StrategyWorkers, task \in StrategyTasks : StrategySelect(w, task)
StrategyInitializeStep == \E w \in StrategyWorkers : StrategyInitialize(w)

NextConfig ==
    \/ kill_switch_view
    \/ UpdateStrategyStateStep
    \/ StrategySelectStep
    \/ StrategyReturnStep
    \/ StrategyInitializeStep
    \/ StrategyExecuteStep

SpecConfig == Init /\ [][NextConfig]_vars

LiveOrders(ex, deal, type, side) ==
    {k \in 1..Len(ex) : /\ ex[k].deal = deal
                        /\ ex[k].type = type
                        /\ ex[k].side = side
                        /\ ex[k].active}

MonitoredDeals(ds) ==
    {i \in 1..Len(ds) : ds[i].is_active /\ ds[i].is_processed /\ ds[i].stop_loss_price # 0}

\* The current price of the Deal's market, 0 for None: the provider is created
\* and no price is asked of it.
_get_current_market_price(d) == 0

\* monitor_active_deals up to the start of its loop.
MonitorStart ==
    /\ mw.pc = "idle"
    /\ mw' = [pc |-> "monitoring", todo |-> AscSeq(MonitoredDeals(deals)), errors |-> 0]
    /\ UNCHANGED <<kill_switch, cfg, deals, orders, exch, taskq, sw, dw, tw, iw, audit, seen, calc, calm, attempt, clock, feed, hook>>

\* One pass of the loop: _monitor_single_deal on the next Deal. Without a
\* price it answers with an error before anything else; with one it updates
\* the trailing stop of a Deal that has trailing enabled. _check_order_execution
\* changes nothing, as _get_order_status answers None.
_monitor_single_deal ==
    /\ mw.pc = "monitoring"
    /\ mw.todo # <<>>
    /\ LET i == Head(mw.todo)
           current_price == _get_current_market_price(deals[i])
           new_stop_price == update_trailing_stop(deals[i], current_price)
       IN IF current_price = 0
          THEN /\ mw' = [mw EXCEPT !.todo = Tail(mw.todo), !.errors = mw.errors + 1]
               /\ UNCHANGED <<deals, orders, exch, audit>>
          ELSE /\ mw' = [mw EXCEPT !.todo = Tail(mw.todo)]
               /\ IF new_stop_price = 0
                  THEN UNCHANGED <<deals, orders, exch, audit>>
                  ELSE \E oc \in CreateOrderOutcomes :
                         LET r == _update_stop_loss_price(i, deals[i], new_stop_price,
                                                          oc, orders, exch)
                         IN /\ deals' = [deals EXCEPT ![i] = r.deal]
                            /\ orders' = r.orders
                            /\ exch' = r.exch
                            /\ audit' = [task |-> "update_trailing_stop", ks |-> kill_switch,
                                         on_since_start |-> FALSE]
    /\ UNCHANGED <<kill_switch, cfg, taskq, sw, dw, tw, iw, seen, calc, calm, attempt, clock, feed, hook>>

\* monitor_active_deals returns its results once the loop is done.
MonitorReturn ==
    /\ mw.pc = "monitoring"
    /\ mw.todo = <<>>
    /\ mw' = IdleMonitor
    /\ UNCHANGED <<kill_switch, cfg, deals, orders, exch, taskq, sw, dw, tw, iw, audit, seen, calc, calm, attempt, clock, feed, hook>>

\* The dispatch cycle and the monitor, each run again and again, on a Deal
\* that carries a stop price and a target price.
NextMonitor ==
    \/ kill_switch_view
    \/ DispatchStartStep
    \/ DispatchReturnStep
    \/ DispatchPlaceStep
    \/ MonitorStart
    \/ _monitor_single_deal
    \/ MonitorReturn

SpecMonitor ==
    /\ InitPlace
    /\ [][NextMonitor]_vars
    /\ WF_vars(DispatchStartStep)
    /\ WF_vars(DispatchReturnStep)
    /\ WF_vars(DispatchPlaceStep)
    /\ WF_vars(MonitorStart)
    /\ WF_vars(_monitor_single_deal)
    /\ WF_vars(MonitorReturn)

\* An active, processed Deal with a stop price whose entry order the exchange
\* holds, and no stop order open at the exchange.
WithoutStopOrder(i) ==
    /\ i \in MonitoredDeals(deals)
    /\ LiveOrders(exch, i, "LIMIT", deals[i].side) # {}
    /\ LiveOrders(exch, i, "STOP_MARKET", Opposite(deals[i].side)) = {}

\* C17: whenever an active, processed Deal has a stop-loss price but no live
\* stop-loss order, repeated monitor cycles eventually leave it with a stop
\* order again (or the Deal is no longer active).
MissingStopOrderEventuallyPlaced ==
    \A i \in 1..MaxDeals : WithoutStopOrder(i) ~> ~WithoutStopOrder(i)


ExitPlaced(side, stop, target) ==
    _process_single_deal(1, PlaceDeal(side, stop, target),
                         "accepted", "accepted", "accepted", <<>>, <<>>)

InitExit ==
    /\ kill_switch = FALSE
    /\ cfg = [is_active |-> TRUE, state |-> "RUNNING"]
    /\ \E side \in OrderSide, stop \in PlaceStops, target \in PlaceTargets :
          /\ stop # 0 \/ target # 0
          /\ deals = <<ExitPlaced(side, stop, target).deal>>
          /\ orders = ExitPlaced(side, stop, target).orders
          /\ exch = ExitPlaced(side, stop, target).exch
    /\ taskq = [d \in 1..MaxDeals |-> 0]
    /\ sw = [w \in StrategyWorkers |-> IdleStrategy]
    /\ dw = [w \in DispatchWorkers |-> IdleDispatch]
    /\ tw = [w \in TaskWorkers |-> IdleTask]
    /\ iw = [w \in InquiryWorkers |-> IdleInquiry]
    /\ audit = WriteEvent("deal_processor_task", IdleDispatch)
    /\ seen = NoSeen
    /\ calc = NoCalc
    /\ calm = FALSE
    /\ attempt = NoAttempt
    /\ mw = IdleMonitor
    /\ clock = NoClock
    /\ feed = NoFeed
    /\ hook = NoHook

\* The exchange fills any order of the Deal, protective orders included.
ExchangeFillAny == \E i \in 1..Len(exch) : ExchangeFill(i)

\* inquiry_orders_task, one invocation at a time, with an exchange that
\* answers every order_info call.
ExitInquiryStart == iw = [w \in InquiryWorkers |-> IdleInquiry] /\ InquiryStartStep

ExitOrderInfo == \E w \in InquiryWorkers : InquiryOrderInfo(w, TRUE)

NextExit ==
    \/ ExchangeFillAny
    \/ ExitInquiryStart
    \/ ExitOrderInfo
    \/ InquiryApplyStep
    \/ InquiryReturnStep
    \/ MonitorStart
    \/ _monitor_single_deal
    \/ MonitorReturn

SpecExit ==
    /\ InitExit
    /\ [][NextExit]_vars
    /\ WF_vars(ExitInquiryStart)
    /\ WF_vars(ExitOrderInfo)
    /\ WF_vars(InquiryApplyStep)
    /\ WF_vars(InquiryReturnStep)
    /\ WF_vars(MonitorStart)
    /\ WF_vars(_monitor_single_deal)
    /\ WF_vars(MonitorReturn)

\* Deal i is active and the exchange has filled one of its protective orders.
ProtectiveFilled(i) ==
    /\ i \in 1..Len(deals)
    /\ deals[i].is_active
    /\ \E k \in 1..Len(exch) :
          /\ exch[k].deal = i
          /\ exch[k].side = Opposite(deals[i].side)
          /\ exch[k].status = "FILLED"

\* C22: when a Deal's stop-loss or take-profit order is filled at the exchange,
\* the Deal eventually becomes inactive, reconciliation and the monitor being
\* scheduled again and again.
ProtectiveFillClosesDeal ==
    \A i \in 1..MaxDeals : ProtectiveFilled(i) ~> (i \in 1..Len(deals) /\ ~deals[i].is_active)


\* ----------------------------------------------------------------------
\* Trade cooldown: StrategyMacdEmaCross._cooldown_ok
\* ----------------------------------------------------------------------
\* trade_cooldown_minutes, and the span of time covered, in ticks.
CooldownTicks == 2
MaxTime == 4

\* _cooldown_ok for an instance whose _last_trade_ts is last (0 for None).
_cooldown_ok(last, now) == last = 0 \/ now - last >= CooldownTicks

Tick ==
    /\ clock.now < MaxTime
    /\ clock' = [clock EXCEPT !.now = @ + 1]
    /\ UNCHANGED <<kill_switch, cfg, deals, orders, exch, taskq, sw, dw, tw, iw, audit, seen, calc, calm, attempt, mw, feed, hook>>

\* A new strategy instance is created and initialized: _last_trade_ts is None
\* unless an active, unprocessed Deal is found, whose created_at it takes.
CooldownStart(w, task) ==
    /\ StrategyStart(w, task)
    /\ LET cur == LatestActiveUnprocessed(deals)
       IN clock' = [clock EXCEPT !._last_trade_ts[w] =
                       IF cur = 0 THEN 0 ELSE clock.created_at[cur]]
    /\ UNCHANGED <<feed, hook>>

\* execute(): a signal passes only when _cooldown_ok() holds; the Deal that
\* _generate_deal creates is stamped with the time.
CooldownExecute(w, sig, price) ==
    /\ StrategyExecute(w, IF _cooldown_ok(clock._last_trade_ts[w], clock.now)
                          THEN sig ELSE "NONE", price)
    /\ ~_cooldown_ok(clock._last_trade_ts[w], clock.now) => sig = "NONE"
    /\ clock' = [clock EXCEPT !.created_at =
                    IF Len(deals') > Len(deals) THEN Append(@, clock.now) ELSE @]
    /\ UNCHANGED <<feed, hook>>

CooldownStartStep == \E w \in StrategyWorkers, task \in StrategyTasks : CooldownStart(w, task)
CooldownExecuteStep ==
    \E w \in StrategyWorkers, sig \in Signals, price \in ClosePrices :
        CooldownExecute(w, sig, price)

NextCooldown ==
    \/ Tick
    \/ CooldownStartStep
    \/ CooldownExecuteStep
    \/ DispatchStartStep
    \/ DispatchProcessStep

SpecCooldown == Init /\ [][NextCooldown]_vars

Candles == {"ok", "missing", "invalid"}
OrderBooks == {"ok", "missing"}
Thresholds == {8, 15}
MockClose == 10000
RealClose == 20000

\* The close price handed to execute(), 0 when the cycle does not get as far.
\* run_all_strategies replaces a missing candle by mock data; the service
\* answers None without a candle, and takes the mid price of the order book
\* when the config needs no history.
latest_close(task, need_historical_data, candle, order_book) ==
    IF task = "run_all_strategies"
    THEN IF candle = "missing" THEN MockClose
         ELSE IF candle = "invalid" THEN 0 ELSE RealClose
    ELSE IF need_historical_data
    THEN IF candle = "ok" THEN RealClose ELSE 0
    ELSE IF order_book = "ok" THEN RealClose ELSE 0

\* The signal that gets through the data checks of execute(). Without
\* history _execute_simple_strategy needs a price and both sides of the book,
\* and its imbalance tests can pass only for a threshold of at most 1. With
\* history a mock candle has volume 0 and fails the volume confirmation; a
\* missing book leaves order_book_ratio at 1.0, which fails the buy test and
\* passes the sell test for a threshold above 1.
signal_passed(need_historical_data, candle, order_book, threshold, close, sig) ==
    IF close <= 0 THEN "NONE"
    ELSE IF ~need_historical_data
    THEN IF order_book = "missing" \/ threshold > 10 THEN "NONE" ELSE sig
    ELSE IF candle # "ok" THEN "NONE"
    ELSE IF order_book = "missing"
    THEN IF sig = "SELL" /\ threshold > 10 THEN "SELL" ELSE "NONE"
    ELSE sig

\* The cycle from the data fetch to the end of execute(). The service does
\* not fetch a candle for a config that needs no history.
CycleExecute(w, need_historical_data, candle, order_book, threshold, sig) ==
    /\ LET close == latest_close(sw[w].task, need_historical_data, candle, order_book)
       IN StrategyExecute(w, signal_passed(need_historical_data, candle, order_book,
                                           threshold, close, sig), close)
    /\ feed' = [candle |-> IF sw[w].task = "strategy_processor_task" /\ ~need_historical_data
                           THEN "none" ELSE candle,
                order_book |-> order_book, error |-> "none", signal |-> sig,
                close |-> latest_close(sw[w].task, need_historical_data, candle, order_book),
                n |-> (feed.n + 1) % 2]
    /\ UNCHANGED <<clock, hook>>

\* An exception is raised in initialize(), in the data fetch or in execute().
\* _fetch_latest_market_data and _execute_simple_strategy catch it and
\* answer None or an error string; every other one reaches the handler of the
\* cycle. run_all_strategies queues the current Deal after execute() returns.
CycleRaise(w, where, need_historical_data) ==
    /\ where = "initialize" => sw[w].pc = "selected" /\ need_historical_data
    /\ where # "initialize" => sw[w].pc = "initialized"
    /\ where = "fetch" => need_historical_data
    /\ LET s == sw[w]
           caught == \/ where = "fetch" /\ s.task = "strategy_processor_task"
                     \/ where = "execute" /\ ~need_historical_data
           queues == /\ where = "execute" /\ caught
                     /\ s.task = "run_all_strategies" /\ s.cur_id # 0
       IN /\ queues => QueuedTasks(taskq) < MaxTasks
          /\ taskq' = IF queues THEN [taskq EXCEPT ![s.cur_id] = @ + 1] ELSE taskq
          /\ sw' = [sw EXCEPT ![w] = IF caught THEN IdleStrategy
                                     ELSE [s EXCEPT !.pc = "failed"]]
    /\ feed' = [NoFeed EXCEPT !.error = where, !.n = (feed.n + 1) % 2]
    /\ UNCHANGED <<kill_switch, cfg, deals, orders, exch, dw, tw, iw, audit, seen, calc, calm, attempt, mw, clock, hook>>

\* The except clause of the cycle: the config is marked STOPPED.
CycleHandle(w) ==
    /\ sw[w].pc = "failed"
    /\ cfg' = update_state(cfg, "STOPPED")
    /\ sw' = [sw EXCEPT ![w] = IdleStrategy]
    /\ UNCHANGED <<kill_switch, deals, orders, exch, taskq, dw, tw, iw, audit, seen, calc, calm, attempt, mw, clock, feed, hook>>

CycleExecuteStep ==
    \E w \in StrategyWorkers, need_historical_data \in BOOLEAN, candle \in Candles,
       order_book \in OrderBooks, threshold \in Thresholds, sig \in Signals :
        CycleExecute(w, need_historical_data, candle, order_book, threshold, sig)
CycleRaiseStep ==
    \E w \in StrategyWorkers, where \in {"initialize", "fetch", "execute"},
       need_historical_data \in BOOLEAN :
        CycleRaise(w, where, need_historical_data)
CycleHandleStep == \E w \in StrategyWorkers : CycleHandle(w)

NextCycle ==
    \/ StrategySelectStep
    \/ StrategyInitializeStep
    \/ CycleExecuteStep
    \/ CycleRaiseStep
    \/ CycleHandleStep
    \/ DispatchStartStep
    \/ DispatchProcessStep

SpecCycle == Init /\ [][NextCycle]_vars

DealSides == {"BUY", "SELL", "HOLD", ""}
DealPrices == {0, 10000}
DealQuantities == {0, 50, 560}
AdminDeals ==
    {NewDeal(side, price, qty) :
        side \in DealSides, price \in DealPrices, qty \in DealQuantities}

InitValidate ==
    /\ kill_switch = FALSE
    /\ cfg = [is_active |-> TRUE, state |-> "RUNNING"]
    /\ \E d1 \in AdminDeals, d2 \in AdminDeals : deals \in {<<d1>>, <<d1, d2>>}
    /\ orders = <<>>
    /\ exch = <<>>
    /\ taskq = [d \in 1..MaxDeals |-> 0]
    /\ sw = [w \in StrategyWorkers |-> IdleStrategy]
    /\ dw = [w \in DispatchWorkers |-> IdleDispatch]
    /\ tw = [w \in TaskWorkers |-> IdleTask]
    /\ iw = [w \in InquiryWorkers |-> IdleInquiry]
    /\ audit = NoAudit
    /\ seen = NoSeen
    /\ calc = NoCalc
    /\ calm = FALSE
    /\ attempt = NoAttempt
    /\ mw = IdleMonitor
    /\ clock = NoClock
    /\ feed = NoFeed
    /\ hook = NoHook

NextValidate ==
    \/ kill_switch_view
    \/ DispatchStartStep
    \/ DispatchReturnStep
    \/ DispatchProcessStep

SpecValidate == InitValidate /\ [][NextValidate]_vars

\* The Deal fails _validate_deal, or no order request can be built from it
\* because its quantity is not positive after rounding.
FailsValidation(d) == ~_validate_deal(d) \/ _prepare_order_request(d, Market) = 0

\* C27: when a deal_processor_task cycle processes a Deal that fails
\* validation, no order reaches the exchange and the Deal is saved with
\* status STOPPED.
InvalidDealStopped ==
    [][\A w \in DispatchWorkers :
          /\ dw[w].pc = "processing" /\ dw'[w] # dw[w]
          /\ dw[w].task = "deal_processor_task"
          /\ FailsValidation(Head(dw[w].todo).obj)
          => /\ exch' = exch
             /\ deals'[Head(dw[w].todo).id].status = "STOPPED"]_vars


StateEdges ==
    {<<"STARTED", "RUNNING">>, <<"RUNNING", "UPDATED">>, <<"UPDATED", "RUNNING">>,
     <<"RUNNING", "NOT_ORDERING">>, <<"RUNNING", "STOPPED">>}

\* C29: every change of the config's state, by a strategy cycle or by the
\* save hook, goes along an edge of the state machine.
StateChangeFollowsEdge ==
    [][cfg'.state # cfg.state => <<cfg.state, cfg'.state>> \in StateEdges]_vars



\* ----------------------------------------------------------------------
\* Deactivation of the config while orders are open
\* ----------------------------------------------------------------------
\* The operator saves the config again and again while the exchange fills the
\* placed orders and the Order rows are refreshed from the exchange.
HookGetAndUpdate == \E i \in 1..Len(orders) : get_and_update_order_status(i)

NextHook ==
    \/ UpdateStrategyStateStep
    \/ ExchangeFillAny
    \/ HookGetAndUpdate

SpecHook == InitExit /\ [][NextHook]_vars

Confidences == {60, 70, 80}

\* BreakoutStrategy._execute_trade: the deal data of a signal of the given
\* confidence (in hundredths), NoDeal when there is no current price. The
\* quantity is position_size_percent / 100, in units of 0.0001.
_execute_trade(side, confidence, current_price) ==
    IF current_price = 0 THEN NoDeal
    ELSE LET position_size_percent == Min({(confidence * 50) \div 100, 50})
         IN NewDeal(side, current_price, position_size_percent * 100)

\* StrategyProcessorService._create_deal_from_signal: Deal.objects.create
\* with the side, price and quantity of the signal data.
_create_deal_from_signal(signal_data) ==
    NewDeal(signal_data.side, signal_data.price, signal_data.quantity)

\* process_single_strategy on a strategy whose execute() returns deal data.
SignalExecute(w, side, confidence, mid_price) ==
    /\ sw[w].pc = "initialized"
    /\ sw[w].task = "strategy_processor_task"
    /\ LET s == sw[w]
           signal_result == _execute_trade(side, confidence, mid_price)
           created == signal_result.side # "NONE"
       IN /\ created => Len(deals) < MaxDeals
          /\ deals' = IF created
                      THEN Append(deals, _create_deal_from_signal(signal_result))
                      ELSE deals
          /\ audit' = IF created THEN WriteEvent(s.task, s) ELSE audit
          /\ sw' = [sw EXCEPT ![w] = IdleStrategy]
    /\ feed' = [NoFeed EXCEPT !.signal = side, !.close = mid_price, !.n = (feed.n + 1) % 2]
    /\ UNCHANGED <<kill_switch, cfg, orders, exch, taskq, dw, tw, iw, seen, calc, calm,
                   attempt, mw, clock, hook>>

\* execute() on a signal and a close price, both remembered in feed.
SizeExecute(w, sig, price) ==
    /\ StrategyExecute(w, sig, price)
    /\ feed' = [NoFeed EXCEPT !.signal = sig, !.close = price, !.n = (feed.n + 1) % 2]
    /\ UNCHANGED <<clock, hook>>

SizeExecuteStep ==
    \E w \in StrategyWorkers, sig \in Signals, price \in ClosePrices :
        SizeExecute(w, sig, price)

SignalExecuteStep ==
    \E w \in StrategyWorkers, side \in {"BUY", "SELL"}, confidence \in Confidences,
       mid_price \in ClosePrices :
        SignalExecute(w, side, confidence, mid_price)

NextSize ==
    \/ StrategyStartStep
    \/ SizeExecuteStep
    \/ SignalExecuteStep
    \/ StrategyReturnStep
    \/ kill_switch_view

SpecSize == Init /\ [][NextSize]_vars

InitOrphan ==
    /\ kill_switch = FALSE
    /\ cfg = [is_active |-> TRUE, state |-> "RUNNING"]
    /\ \E side \in OrderSide, orphan \in OrderSide :
          LET p == Placed(side, "dispatch_deal_processing_task")
              client_order_id == Len(p.exch) + 1
          IN /\ deals = <<p.deal>>
             /\ orders = Append(p.orders, NewOrder(0, orphan, "LIMIT", 560, client_order_id))
             /\ exch = Append(p.exch, ExchangeOrder(0, orphan, "LIMIT", 560))
    /\ audit = WriteEvent("dispatch_deal_processing_task", IdleDispatch)
    /\ taskq = [d \in 1..MaxDeals |-> 0]
    /\ sw = [w \in StrategyWorkers |-> IdleStrategy]
    /\ dw = [w \in DispatchWorkers |-> IdleDispatch]
    /\ tw = [w \in TaskWorkers |-> IdleTask]
    /\ iw = [w \in InquiryWorkers |-> IdleInquiry]
    /\ seen = NoSeen
    /\ calc = NoCalc
    /\ calm = FALSE
    /\ attempt = NoAttempt
    /\ mw = IdleMonitor
    /\ clock = NoClock
    /\ feed = NoFeed
    /\ hook = NoHook

NextOrphan ==
    \/ ExchangeFillAny
    \/ InquiryStartStep
    \/ InquiryOrderInfoStep
    \/ InquiryApplyStep
    \/ InquiryReturnStep

SpecOrphan == InitOrphan /\ [][NextOrphan]_vars

\* C32: the transaction of a pass on an Order without Deal leaves every
\* Deal as it was and gives the Order row the status, the active flag and the
\* fill fields of the exchange response.
OrphanOrderTakesResponse ==
    [][\A w \in InquiryWorkers :
          iw[w].pc = "apply" /\ iw'[w].pc # "apply" /\ Head(iw[w].todo).obj.deal = 0
             => /\ deals' = deals
                /\ LET row == orders'[Head(iw[w].todo).id]
                       response == iw[w].response
                   IN /\ row.status = response.status
                      /\ row.active = response.active
                      /\ row.executed_qty = response.executed_qty
                      /\ row.executed_percent = response.executed_percent]_vars



\* C33: a lookup of the pass that fails or does not find the order leaves
\* every Order and Deal row as it was, and the pass goes on with the orders
\* that remain instead of ending in an error.
FailedLookupChangesNothing ==
    [][\A w \in InquiryWorkers :
          /\ iw[w].pc = "fetch"
          /\ iw'[w].pc # "apply"
          /\ iw'[w].pc # "fetch" \/ iw'[w].todo # iw[w].todo
          => /\ orders' = orders
             /\ deals' = deals
             /\ iw'[w].todo = Tail(iw[w].todo)
             /\ iw'[w].pc = IF Tail(iw[w].todo) = <<>> THEN "done" ELSE "fetch"]_vars

\* The lookup of the first order of a pass failed while the exchange had
\* filled it: its row is still NEW and the pass is at the second order.
FailedLookupChangesNothingWitness ==
    \E w \in InquiryWorkers :
        /\ iw[w].pc = "fetch" /\ Len(iw[w].todo) = 1 /\ iw[w].todo[1].id = 2
        /\ ~iw[w].saved
        /\ exch[1].status = "FILLED"
        /\ orders[1].status = "NEW" /\ deals[1].processed_side = "NONE"



\* ----------------------------------------------------------------------
\* Placement with a failure after the exchange has accepted
\* ----------------------------------------------------------------------
DispatchAcceptStep ==
    \E w \in DispatchWorkers, oc \in CreateOrderOutcomes \cup {"unrecorded"},
       oc_sl, oc_tp \in CreateOrderOutcomes :
        /\ oc = "unrecorded" => Len(exch) < MaxOrders
        /\ DispatchProcess(w, oc, oc_sl, oc_tp)
        /\ attempt' = Attempt(dw[w], oc, oc_sl, oc_tp)

NextAccept ==
    \/ kill_switch_view
    \/ DispatchStartStep
    \/ DispatchReturnStep
    \/ DispatchAcceptStep
    \/ ExchangeFillAny

SpecAccept == InitPlace /\ [][NextAccept]_vars

CanceledRowNotOpenAtExchange ==
    \A k \in 1..Len(orders) :
        orders[k].status = "CANCELED" /\ orders[k].client_order_id \in 1..Len(exch)
           => ~IsOpen(exch[orders[k].client_order_id])



\* ----------------------------------------------------------------------
\* A reconciliation pass with an order that raises
\* ----------------------------------------------------------------------
\* _inquiry_order raises for the next order of the pass: create_provider
\* raises ValueError, which is raised again, or the transaction raises on the
\* response (Decimal() of a fill it cannot read) and rolls back.
\* inquiry_all_orders raises it out of its loop: the pass ends with the rest
\* of its orders not looked at.
InquiryRaise(w) ==
    /\ iw[w].pc \in {"fetch", "apply"}
    /\ iw' = [iw EXCEPT ![w] = [@ EXCEPT !.pc = "done", !.todo = <<>>, !.run = 0]]
    /\ UNCHANGED <<kill_switch, cfg, deals, orders, exch, taskq, sw, dw, tw, audit, seen,
                   calc, calm, attempt, mw, clock, feed, hook>>

InquiryRaiseStep == \E w \in InquiryWorkers : InquiryRaise(w)

NextBatch ==
    \/ ExchangeFillAny
    \/ InquiryStartStep
    \/ InquiryOrderInfoStep
    \/ InquiryApplyStep
    \/ InquiryRaiseStep
    \/ InquiryReturnStep

SpecBatch == InitOrphan /\ [][NextBatch]_vars

\* C36: when a reconciliation pass is done with one order, whether it was
\* processed or failed, the pass goes on with all the orders that remain.
FailedItemDoesNotStopBatch ==
    [][\A w \in InquiryWorkers :
          iw[w].pc \in {"fetch", "apply"} /\ iw'[w].todo # iw[w].todo
             => iw'[w].todo = Tail(iw[w].todo)]_vars



\* ----------------------------------------------------------------------
\* Processed side of a Deal
\* ----------------------------------------------------------------------
\* ProcessedSideEnum, and the steps forward between its values.
ProcessedSideEdges ==
    {<<"NONE", "BUY">>, <<"NONE", "SELL">>,
     <<"BUY", "BUY_AND_SELL">>, <<"SELL", "BUY_AND_SELL">>}

WallexOrderInfoResult(ex, o) == order_info(ex, o)

\* provider.order_info as WallexProvider returns it: a dict with the keys
\* success, message and result.
WallexOrderInfo(ex, o) ==
    [success |-> order_info(ex, o) # NoOrder, message |-> "", result |-> order_info(ex, o)]

\* One iteration of order_inquiry_task on Order row i: the status is written,
\* alone, when the response has a key 'status' with another status.
order_inquiry_task(i) ==
    /\ i \in 1..Len(orders)
    /\ orders[i].active /\ IsOpen(orders[i])
    /\ LET response == WallexOrderInfo(exch, orders[i])
           writes == "status" \in DOMAIN response /\ response.status # orders[i].status
       IN /\ orders' = IF writes THEN [orders EXCEPT ![i].status = response.status]
                       ELSE orders
          /\ iw' = IF writes THEN Disturb(iw) ELSE iw
          /\ calm' = IF writes THEN FALSE ELSE calm
    /\ UNCHANGED <<kill_switch, cfg, deals, exch, taskq, sw, dw, tw, audit, seen, calc,
                   attempt, mw, clock, feed, hook>>

OrderInquiryTaskStep == \E i \in 1..MaxOrders : order_inquiry_task(i)

NextActive ==
    \/ ExchangeFillStep
    \/ InquiryStartStep
    \/ InquiryOrderInfoStep
    \/ InquiryApplyStep
    \/ InquiryReturnStep
    \/ GetAndUpdateStep
    \/ CancelOrderStep
    \/ CancelDealStep
    \/ OrderInquiryTaskStep

SpecActive == InitRecon /\ [][NextActive]_vars

====
